---- MODULE Spec2Model ----
(***************************************************************************)
(* One run of the currency_converter script (src/currency_converter.py):   *)
(* the sidebar inputs, the Swap button, the live-rate fetch, the           *)
(* conversion cards, the 30-day trend loop for the first target and the    *)
(* per-currency history table loop.  The upstream rate API is the          *)
(* environment: the latest response is chosen when the request is made,    *)
(* the historical responses are given by `upstream`.                       *)
(***************************************************************************)
EXTENDS Integers, Sequences, FiniteSets, TLC

VARIABLES
    widget_from,        \* value returned by the "From Currency" selectbox
    widget_to,          \* value returned by the "To Currency" multiselect
    swap_clicked,       \* value returned by the Swap button
    amount,             \* value returned by the Amount number input
    today,              \* the day datetime.today() falls on (days since 1970-01-01)
    upstream,           \* historical answers of the rate API, per window date
    from_currency_name,
    to_currency_names,
    from_currency,
    to_currencies,
    pc,                 \* position of the script run
    response,           \* the latest-rates response (<<>> before the request)
    rates,
    missing,
    notices,            \* st.error / st.warning messages emitted so far
    cards,              \* conversion metrics rendered, by column index
    start_date,         \* <<>> while the name is unbound, <<day>> once assigned
    i,                  \* loop index of the running history loop
    historical_rates,
    dates_list,
    chart,              \* data frame given to the trend chart (<<>> if none)
    cur_idx,            \* position of `cur` in the table loop over to_currencies
    cur_rates,
    cur_dates,
    table_data,
    dataframe,          \* TRUE once st.dataframe was called
    urls,               \* every URL requested in this run, in request order
    hist_resps          \* responses received by the running history loop

vars == <<widget_from, widget_to, swap_clicked, amount, today, upstream,
          from_currency_name, to_currency_names, from_currency, to_currencies,
          pc, response, rates, missing, notices, cards, start_date, i,
          historical_rates, dates_list, chart, cur_idx, cur_rates, cur_dates,
          table_data, dataframe, urls, hist_resps>>

---------------------------------------------------------------------------
(* Bounds of the model *)

\* longest multiselect selection that is explored
MaxTargets == 2

---------------------------------------------------------------------------
(* Generic helpers *)

Range(s) == {s[k] : k \in DOMAIN s}

NoDuplicates(s) == \A a, b \in DOMAIN s : a # b => s[a] # s[b]

\* all sequences over S of length <= n without a repeated element
DistinctSeqs(S, n) ==
    UNION {{s \in [1..k -> S] : NoDuplicates(s)} : k \in 0..n}

---------------------------------------------------------------------------
(* The currency menu *)

\* list(currencies.keys()): the option labels, in menu order
CurrencyNames ==
    <<"USD flag", "EUR flag", "GBP flag", "NGN flag", "JPY flag", "CAD flag",
      "AUD flag">>

\* the dict `currencies`: option label -> 3-letter code
currencies ==
    [n \in Range(CurrencyNames) |->
        CASE n = "USD flag" -> "USD"
          [] n = "EUR flag" -> "EUR"
          [] n = "GBP flag" -> "GBP"
          [] n = "NGN flag" -> "NGN"
          [] n = "JPY flag" -> "JPY"
          [] n = "CAD flag" -> "CAD"
          [] n = "AUD flag" -> "AUD"]

\* the options the explored user picks among
Options == {"USD flag", "EUR flag", "GBP flag"}

\* the amounts the explored user enters (min_value=0.0)
Amounts == {0, 3}

\* [currencies[name] for name in names]
CodesOf(names) == [k \in DOMAIN names |-> currencies[names[k]]]

---------------------------------------------------------------------------
(* Calendar: datetime arithmetic, strftime("%Y-%m-%d"), pd.to_datetime *)

\* A formatted date "YYYY-MM-DD" is the triple <<YYYY, MM, DD>> of its
\* zero-padded fields.

\* (day).strftime("%Y-%m-%d") for a day counted from 1970-01-01
FormatDate(day) ==
    LET z   == day + 719468
        era == z \div 146097
        doe == z - era * 146097
        yoe == (doe - doe \div 1460 + doe \div 36524 - doe \div 146096) \div 365
        doy == doe - (365 * yoe + yoe \div 4 - yoe \div 100)
        mp  == (5 * doy + 2) \div 153
        d   == doy - (153 * mp + 2) \div 5 + 1
        m   == IF mp < 10 THEN mp + 3 ELSE mp - 9
        y   == yoe + era * 400 + (IF m <= 2 THEN 1 ELSE 0)
    IN  <<y, m, d>>

\* pd.to_datetime("YYYY-MM-DD"), as a day counted from 1970-01-01
ParseDate(str) ==
    LET y   == IF str[2] <= 2 THEN str[1] - 1 ELSE str[1]
        era == y \div 400
        yoe == y - era * 400
        mp  == IF str[2] > 2 THEN str[2] - 3 ELSE str[2] + 9
        doy == (153 * mp + 2) \div 5 + str[3] - 1
        doe == yoe * 365 + yoe \div 4 - yoe \div 100 + doy
    IN  era * 146097 + doe - 719468

\* the days datetime.today() is explored on: 2024-03-01 (the window crosses
\* 29 February), 2026-01-01 (it crosses the year), 2026-10-29
Todays == {19783, 20454, 20755}

\* timedelta(days=30)
WindowDays == 30

\* end_date - timedelta(days=30)
WindowStart(end_date) == end_date - WindowDays

\* the 31 of range(31)
LoopCount == 31

\* range(31): the loop indices of a history loop
LoopRange == 0..(LoopCount - 1)

\* the loop walking the window backwards from its last day
DateOfBackwards(start, idx) == FormatDate(start + WindowDays - idx)

\* (start_date + timedelta(days=i)).strftime("%Y-%m-%d")
DateOf(start, idx) == FormatDate(start + idx)

---------------------------------------------------------------------------
(* The upstream API *)

FullRates == [c \in {"USD", "EUR", "GBP"} |->
                 CASE c = "USD" -> 10 [] c = "EUR" -> 9 [] c = "GBP" -> 8]
PartialRates == [c \in {"EUR"} |-> 7]
EmptyRates == [c \in {} |-> 0]

\* requests.get(...).json() raising (network failure, body that is no JSON)
Raised == [exception |-> "RequestException"]

\* what a request for a historical date can give
HistResponses ==
    { Raised,
      [result |-> "error", rates |-> FullRates],
      [result |-> "success", rates |-> PartialRates],
      [result |-> "success", rates |-> FullRates] }

\* what the latest-rates request can give
LatestResponses ==
    HistResponses \cup
    { [error |-> "unsupported-code"],
      [result |-> "success"],
      [result |-> "success", rates |-> EmptyRates] }

\* f"https://open.er-api.com/v6/latest/{from_currency}"
LatestUrl(base) == <<"latest", base>>

\* f"https://open.er-api.com/v6/{date}/{from_currency}"
HistUrl(date, base) == <<date, base>>

\* the answer of a date on which the API has complete data
Steady == [result |-> "success", rates |-> FullRates]

\* the loop indices of the window dates whose answers are explored: the
\* first and the last date of the window; every other date answers Steady
VariedDays == {0, LoopCount - 1}

\* the answers the API can give to a historical URL in this run
Answers(url) == upstream[ParseDate(url[1]) - WindowStart(today)]

---------------------------------------------------------------------------
(* Pure steps of the script *)

\* the swap exchanging the base with the last target instead of the first
SwapNamesLast(from_name, to_names) ==
    IF to_names # <<>>
    THEN [from |-> to_names[Len(to_names)],
          to |-> [to_names EXCEPT ![Len(to_names)] = from_name]]
    ELSE [from |-> from_name, to |-> to_names]

\* lines 38-41: the names after the Swap button was pressed
SwapNames(from_name, to_names) ==
    IF to_names # <<>>
    THEN [from |-> to_names[1], to |-> [to_names EXCEPT ![1] = from_name]]
    ELSE [from |-> from_name, to |-> to_names]

\* the latest fetch without the check of the result field
LatestFailsUnchecked(resp) ==
    IF "exception" \in DOMAIN resp THEN TRUE
    ELSE "rates" \notin DOMAIN resp

\* lines 48-54 and 61: the latest response raises, lacks "result", reports a
\* result other than "success", or lacks "rates"
LatestFails(resp) ==
    IF "exception" \in DOMAIN resp THEN TRUE
    ELSE IF "result" \notin DOMAIN resp THEN TRUE
    ELSE IF resp.result # "success" THEN TRUE
    ELSE "rates" \notin DOMAIN resp

\* line 55: {cur: all_rates[cur] for cur in to_currencies if cur in all_rates}
AvailableRates(to_cur, all_rates) ==
    [c \in Range(to_cur) \cap DOMAIN all_rates |-> all_rates[c]]

\* the missing list with its condition inverted
MissingOfInverted(to_cur, all_rates) ==
    LET present(c) == c \in DOMAIN all_rates
    IN  SelectSeq(to_cur, present)

\* line 58: [cur for cur in to_currencies if cur not in all_rates]
MissingOf(to_cur, all_rates) ==
    LET absent(c) == c \notin DOMAIN all_rates
    IN  SelectSeq(to_cur, absent)

\* lines 71-78: the metric of every column whose currency has a rate
CardsOf(to_cur, rts, amt) ==
    [k \in {j \in DOMAIN to_cur : to_cur[j] \in DOMAIN rts} |->
        [to |-> to_cur[k], converted |-> amt * rts[to_cur[k]],
         rate |-> rts[to_cur[k]]]]

\* lines 92-99 and 120-126: the response carries an observation for cur
\* (a raised request or a missing key is swallowed by the bare except)
HistObserved(resp, cur) ==
    /\ "exception" \notin DOMAIN resp
    /\ "result" \in DOMAIN resp
    /\ resp.result = "success"
    /\ "rates" \in DOMAIN resp
    /\ cur \in DOMAIN resp.rates

\* a failed date discarding what the loop has collected so far
NextRatesReset(rs, resp, cur) ==
    IF HistObserved(resp, cur) THEN Append(rs, resp.rates[cur]) ELSE <<>>

\* lines 96 and 123: the rate list after one loop iteration
NextRates(rs, resp, cur) ==
    IF HistObserved(resp, cur) THEN Append(rs, resp.rates[cur]) ELSE rs

\* lines 97 and 124: the date list after one loop iteration
NextDates(ds, resp, cur, date) ==
    IF HistObserved(resp, cur) THEN Append(ds, date) ELSE ds

\* lines 102 and 127: rates indexed by pd.to_datetime(dates)
SeriesOf(rs, ds) ==
    [k \in DOMAIN rs |-> [date |-> ParseDate(ds[k]), rate |-> rs[k]]]

\* line 127: table_data[cur] = series
PutSeries(td, cur, series) ==
    [c \in DOMAIN td \cup {cur} |-> IF c = cur THEN series ELSE td[c]]

---------------------------------------------------------------------------
(* The script run *)

\* lines 25-34: the widgets have returned and the codes are looked up
Started ==
    /\ from_currency_name = widget_from
    /\ to_currency_names = widget_to
    /\ from_currency = currencies[widget_from]
    /\ to_currencies = CodesOf(widget_to)
    /\ pc = "swap"
    /\ response = <<>>
    /\ rates = <<>>
    /\ missing = <<>>
    /\ notices = <<>>
    /\ cards = <<>>
    /\ start_date = <<>>
    /\ i = 0
    /\ historical_rates = <<>>
    /\ dates_list = <<>>
    /\ chart = <<>>
    /\ cur_idx = 0
    /\ cur_rates = <<>>
    /\ cur_dates = <<>>
    /\ table_data = <<>>
    /\ dataframe = FALSE
    /\ urls = <<>>
    /\ hist_resps = <<>>

\* any selection of the explored user, on any explored day, against an API
\* that answers every request for one date alike, and the varied dates alike
Init ==
    /\ widget_from \in Options
    /\ widget_to \in DistinctSeqs(Options, MaxTargets)
    /\ swap_clicked \in BOOLEAN
    /\ amount \in Amounts
    /\ today \in Todays
    /\ upstream \in {[k \in LoopRange |->
                         IF k \in VariedDays THEN {r} ELSE {Steady}] :
                     r \in HistResponses}
    /\ Started

\* a few selections, against an API that may answer every single request
\* for a varied date differently (transient failures included)
InitUnstable ==
    /\ widget_from = "USD flag"
    /\ widget_to \in {<<"EUR flag">>, <<"EUR flag", "GBP flag">>,
                      <<"GBP flag", "EUR flag">>, <<"USD flag", "EUR flag">>}
    /\ swap_clicked \in BOOLEAN
    /\ amount = 3
    /\ today \in Todays
    /\ upstream = [k \in LoopRange |->
                      IF k \in VariedDays THEN HistResponses ELSE {Steady}]
    /\ Started

\* lines 37-43
SwapButton ==
    /\ pc = "swap"
    /\ pc' = "latest"
    /\ IF swap_clicked /\ to_currency_names # <<>>
       THEN LET s == SwapNames(from_currency_name, to_currency_names)
            IN  /\ from_currency_name' = s.from
                /\ to_currency_names' = s.to
                /\ from_currency' = currencies[s.from]
                /\ to_currencies' = CodesOf(s.to)
       ELSE UNCHANGED <<from_currency_name, to_currency_names, from_currency,
                        to_currencies>>
    /\ UNCHANGED <<widget_from, widget_to, swap_clicked, amount, today,
                   upstream, response, rates, missing, notices, cards,
                   start_date, i, historical_rates, dates_list, chart, cur_idx,
                   cur_rates, cur_dates, table_data, dataframe, urls,
                   hist_resps>>

\* lines 46-63, the request failing: st.error and st.stop
FetchLatestFailed ==
    /\ pc = "latest"
    /\ \E resp \in LatestResponses :
        /\ LatestFails(resp)
        /\ response' = resp
        /\ notices' = Append(notices,
               IF "result" \in DOMAIN resp /\ resp.result # "success"
               THEN <<"error", "Could not fetch rates">>
               ELSE <<"error", "Failed to fetch rates">>)
    /\ urls' = Append(urls, LatestUrl(from_currency))
    /\ pc' = "stopped"
    /\ UNCHANGED <<widget_from, widget_to, swap_clicked, amount, today,
                   upstream, from_currency_name, to_currency_names,
                   from_currency, to_currencies, rates, missing, cards,
                   start_date, i, historical_rates, dates_list, chart, cur_idx,
                   cur_rates, cur_dates, table_data, dataframe, hist_resps>>

\* lines 46-60, the request succeeding: rates, missing and the warning
FetchLatestOk ==
    /\ pc = "latest"
    /\ \E resp \in LatestResponses :
        /\ ~LatestFails(resp)
        /\ response' = resp
        /\ rates' = AvailableRates(to_currencies, resp.rates)
        /\ missing' = MissingOf(to_currencies, resp.rates)
        /\ notices' = IF MissingOf(to_currencies, resp.rates) # <<>>
                      THEN Append(notices, <<"warning", "Some currencies not found">>)
                      ELSE notices
    /\ urls' = Append(urls, LatestUrl(from_currency))
    /\ pc' = "cards"
    /\ UNCHANGED <<widget_from, widget_to, swap_clicked, amount, today,
                   upstream, from_currency_name, to_currency_names,
                   from_currency, to_currencies, cards, start_date, i,
                   historical_rates, dates_list, chart, cur_idx, cur_rates,
                   cur_dates, table_data, dataframe, hist_resps>>

\* lines 66-78
DisplayCards ==
    /\ pc = "cards"
    /\ IF to_currencies = <<>>
       THEN /\ notices' = Append(notices, <<"warning", "Select at least one target currency">>)
            /\ cards' = cards
       ELSE /\ cards' = CardsOf(to_currencies, rates, amount)
            /\ notices' = notices
    /\ pc' = "trend"
    /\ UNCHANGED <<widget_from, widget_to, swap_clicked, amount, today,
                   upstream, from_currency_name, to_currency_names,
                   from_currency, to_currencies, response, rates, missing,
                   start_date, i, historical_rates, dates_list, chart, cur_idx,
                   cur_rates, cur_dates, table_data, dataframe, urls,
                   hist_resps>>

\* lines 81-88: the trend block is entered, or skipped as a whole
TrendBegin ==
    /\ pc = "trend"
    /\ IF to_currencies # <<>> /\ to_currencies[1] \in DOMAIN rates
       THEN /\ start_date' = <<WindowStart(today)>>
            /\ historical_rates' = <<>>
            /\ dates_list' = <<>>
            /\ i' = 0
            /\ hist_resps' = <<>>
            /\ pc' = "trend_loop"
       ELSE /\ pc' = "table"
            /\ UNCHANGED <<start_date, historical_rates, dates_list, i,
                           hist_resps>>
    /\ UNCHANGED <<widget_from, widget_to, swap_clicked, amount, today,
                   upstream, from_currency_name, to_currency_names,
                   from_currency, to_currencies, response, rates, missing,
                   notices, cards, chart, cur_idx, cur_rates, cur_dates,
                   table_data, dataframe, urls>>

\* lines 89-99: one iteration of the trend loop
TrendFetch ==
    /\ pc = "trend_loop"
    /\ i \in LoopRange
    /\ LET date == DateOf(start_date[1], i)
           hist_url == HistUrl(date, from_currency)
       IN  /\ urls' = Append(urls, hist_url)
           /\ \E hist_resp \in Answers(hist_url) :
               /\ historical_rates' =
                      NextRates(historical_rates, hist_resp, to_currencies[1])
               /\ dates_list' =
                      NextDates(dates_list, hist_resp, to_currencies[1], date)
               /\ hist_resps' = Append(hist_resps, hist_resp)
    /\ i' = i + 1
    /\ UNCHANGED <<widget_from, widget_to, swap_clicked, amount, today,
                   upstream, from_currency_name, to_currency_names,
                   from_currency, to_currencies, pc, response, rates, missing,
                   notices, cards, start_date, chart, cur_idx, cur_rates,
                   cur_dates, table_data, dataframe>>

\* lines 101-108: the loop is over, the chart is drawn if there is data
TrendEnd ==
    /\ pc = "trend_loop"
    /\ i \notin LoopRange
    /\ chart' = IF historical_rates # <<>>
                THEN SeriesOf(historical_rates, dates_list)
                ELSE chart
    /\ pc' = "table"
    /\ UNCHANGED <<widget_from, widget_to, swap_clicked, amount, today,
                   upstream, from_currency_name, to_currency_names,
                   from_currency, to_currencies, response, rates, missing,
                   notices, cards, start_date, i, historical_rates, dates_list,
                   cur_idx, cur_rates, cur_dates, table_data, dataframe, urls,
                   hist_resps>>

\* lines 111-114: the table block is entered, or the run ends
TableBegin ==
    /\ pc = "table"
    /\ IF Len(to_currencies) > 1
       THEN /\ table_data' = <<>>
            /\ cur_idx' = 1
            /\ pc' = "table_cur"
       ELSE /\ pc' = "done"
            /\ UNCHANGED <<table_data, cur_idx>>
    /\ UNCHANGED <<widget_from, widget_to, swap_clicked, amount, today,
                   upstream, from_currency_name, to_currency_names,
                   from_currency, to_currencies, response, rates, missing,
                   notices, cards, start_date, i, historical_rates, dates_list,
                   chart, cur_rates, cur_dates, dataframe, urls, hist_resps>>

\* lines 114-117: the next currency of the table loop
TableCurBegin ==
    /\ pc = "table_cur"
    /\ cur_idx \in DOMAIN to_currencies
    /\ cur_rates' = <<>>
    /\ cur_dates' = <<>>
    /\ i' = 0
    /\ hist_resps' = <<>>
    /\ pc' = "table_loop"
    /\ UNCHANGED <<widget_from, widget_to, swap_clicked, amount, today,
                   upstream, from_currency_name, to_currency_names,
                   from_currency, to_currencies, response, rates, missing,
                   notices, cards, start_date, historical_rates, dates_list,
                   chart, cur_idx, table_data, dataframe, urls>>

\* line 118 with start_date unbound: NameError ends the run
TableNameError ==
    /\ pc = "table_loop"
    /\ i \in LoopRange
    /\ start_date = <<>>
    /\ pc' = "crashed"
    /\ UNCHANGED <<widget_from, widget_to, swap_clicked, amount, today,
                   upstream, from_currency_name, to_currency_names,
                   from_currency, to_currencies, response, rates, missing,
                   notices, cards, start_date, i, historical_rates, dates_list,
                   chart, cur_idx, cur_rates, cur_dates, table_data, dataframe,
                   urls, hist_resps>>

\* lines 117-126: one iteration of the inner table loop
TableFetch ==
    /\ pc = "table_loop"
    /\ i \in LoopRange
    /\ start_date # <<>>
    /\ LET date == DateOf(start_date[1], i)
           hist_url == HistUrl(date, from_currency)
           cur == to_currencies[cur_idx]
       IN  /\ urls' = Append(urls, hist_url)
           /\ \E hist_resp \in Answers(hist_url) :
               /\ cur_rates' = NextRates(cur_rates, hist_resp, cur)
               /\ cur_dates' = NextDates(cur_dates, hist_resp, cur, date)
               /\ hist_resps' = Append(hist_resps, hist_resp)
    /\ i' = i + 1
    /\ UNCHANGED <<widget_from, widget_to, swap_clicked, amount, today,
                   upstream, from_currency_name, to_currency_names,
                   from_currency, to_currencies, pc, response, rates, missing,
                   notices, cards, start_date, historical_rates, dates_list,
                   chart, cur_idx, table_data, dataframe>>

\* line 127: the inner loop is over, the series is stored
TableCurEnd ==
    /\ pc = "table_loop"
    /\ i \notin LoopRange
    /\ table_data' = PutSeries(table_data, to_currencies[cur_idx],
                               SeriesOf(cur_rates, cur_dates))
    /\ cur_idx' = cur_idx + 1
    /\ pc' = "table_cur"
    /\ UNCHANGED <<widget_from, widget_to, swap_clicked, amount, today,
                   upstream, from_currency_name, to_currency_names,
                   from_currency, to_currencies, response, rates, missing,
                   notices, cards, start_date, i, historical_rates, dates_list,
                   chart, cur_rates, cur_dates, dataframe, urls, hist_resps>>

\* lines 128-130: the outer loop is over, the table is shown
TableEnd ==
    /\ pc = "table_cur"
    /\ cur_idx \notin DOMAIN to_currencies
    /\ dataframe' = (table_data # <<>>)
    /\ pc' = "done"
    /\ UNCHANGED <<widget_from, widget_to, swap_clicked, amount, today,
                   upstream, from_currency_name, to_currency_names,
                   from_currency, to_currencies, response, rates, missing,
                   notices, cards, start_date, i, historical_rates, dates_list,
                   chart, cur_idx, cur_rates, cur_dates, table_data, urls,
                   hist_resps>>

Next ==
    \/ SwapButton
    \/ FetchLatestFailed
    \/ FetchLatestOk
    \/ DisplayCards
    \/ TrendBegin
    \/ TrendFetch
    \/ TrendEnd
    \/ TableBegin
    \/ TableCurBegin
    \/ TableNameError
    \/ TableFetch
    \/ TableCurEnd
    \/ TableEnd

Spec == Init /\ [][Next]_vars

SpecUnstable == InitUnstable /\ [][Next]_vars

---------------------------------------------------------------------------
(* Vocabulary of the properties *)

\* the latest fetch has been made and handled
LatestHandled == pc \notin {"swap", "latest"}

\* the cycle went on after the latest fetch
LatestAccepted == pc \notin {"swap", "latest", "stopped"}

\* a response that is a failure: the request or the parsing raised, or the
\* result field is not "success"
IsFailure(resp) ==
    IF "exception" \in DOMAIN resp THEN TRUE
    ELSE IF "result" \notin DOMAIN resp THEN TRUE
    ELSE IF resp.result # "success" THEN TRUE
    ELSE "rates" \notin DOMAIN resp

\* a response of a date whose fetch succeeded and whose snapshot has cur
HasObservation(resp, cur) ==
    IF IsFailure(resp) THEN FALSE ELSE cur \in DOMAIN resp.rates

IsHistUrl(url) == url[1] # "latest"

\* the positions of log whose response has an observation for cur
ObservedAt(log, cur) ==
    LET ok(k) == HasObservation(log[k], cur)
    IN  SelectSeq([k \in DOMAIN log |-> k], ok)

\* the series the responses `log` of the window dates, received in date
\* order from today - WindowDays on, stand for
ExpectedSeries(log, cur) ==
    LET at == ObservedAt(log, cur)
    IN  [j \in DOMAIN at |->
            [date |-> today - WindowDays + (at[j] - 1),
             rate |-> log[at[j]].rates[cur]]]

\* every observation is dated before the next one
StrictlyIncreasing(series) ==
    \A k \in 1..(Len(series) - 1) : series[k].date < series[k + 1].date

---------------------------------------------------------------------------
(* C1 *)

\* C1: once the latest fetch succeeded, the keys of `rates` and the elements
\* of `missing` partition the requested targets: together they are exactly
\* the requested codes, and no code is in both.
C1_Partition ==
    LatestAccepted =>
        /\ DOMAIN rates \cup Range(missing) = Range(to_currencies)
        /\ DOMAIN rates \cap Range(missing) = {}
        /\ \A c \in DOMAIN rates : rates[c] = response.rates[c]

\* a snapshot that has one requested target and lacks another
C1_Witness ==
    /\ pc = "cards"
    /\ rates # <<>>
    /\ missing # <<>>
    /\ Len(to_currencies) = 2

---------------------------------------------------------------------------
(* C2 *)

\* C2: the Swap step with the button pressed and a non-empty target list
\* makes the old first target the base and the old base the first target,
\* keeps every later target in place and leaves the amount alone; with an
\* empty target list, or the button not pressed, base, targets and amount
\* stay as they are.
C2_Swap ==
    [][pc = "swap" =>
        /\ amount' = amount
        /\ IF swap_clicked /\ to_currencies # <<>>
           THEN /\ from_currency' = to_currencies[1]
                /\ Len(to_currencies') = Len(to_currencies)
                /\ to_currencies'[1] = from_currency
                /\ \A k \in 2..Len(to_currencies) :
                       to_currencies'[k] = to_currencies[k]
           ELSE /\ from_currency' = from_currency
                /\ to_currencies' = to_currencies]_vars

\* base USD with targets [EUR, GBP] has become base EUR with [USD, GBP]
C2_Witness ==
    /\ pc = "latest"
    /\ swap_clicked
    /\ widget_from = "USD flag"
    /\ widget_to = <<"EUR flag", "GBP flag">>
    /\ from_currency = "EUR"
    /\ to_currencies = <<"USD", "GBP">>

---------------------------------------------------------------------------
(* C3 *)

\* C3: when the latest fetch failed, an error is shown and the cycle stops:
\* no card is rendered and no historical request is issued.
C3_FailureStops ==
    (LatestHandled /\ IsFailure(response)) =>
        /\ pc = "stopped"
        /\ \E k \in DOMAIN notices : notices[k][1] = "error"
        /\ cards = <<>>
        /\ \A k \in DOMAIN urls : ~IsHistUrl(urls[k])

\* stopped on a response whose result field is not "success"
C3_Witness ==
    /\ pc = "stopped"
    /\ "result" \in DOMAIN response
    /\ response.result = "error"
    /\ to_currencies # <<>>

---------------------------------------------------------------------------
(* C4 *)

\* C4: the series of a history loop holds an observation for exactly the
\* window dates whose fetch succeeded with the target in the snapshot, each
\* with that date's rate, whatever the other dates' fetches did; a finished
\* loop has fetched every one of the 31 dates of [today - 30, today].
C4_SeriesComplete ==
    /\ pc = "trend_loop" =>
        /\ Len(hist_resps) = i
        /\ SeriesOf(historical_rates, dates_list)
               = ExpectedSeries(hist_resps, to_currencies[1])
    /\ (pc = "table" /\ start_date # <<>>) =>
        /\ Len(hist_resps) = LoopCount
        /\ chart = ExpectedSeries(hist_resps, to_currencies[1])
    /\ pc = "table_loop" =>
        /\ Len(hist_resps) = i
        /\ SeriesOf(cur_rates, cur_dates)
               = ExpectedSeries(hist_resps, to_currencies[cur_idx])
    /\ (pc = "table_cur" /\ cur_idx > 1) =>
        /\ Len(hist_resps) = LoopCount
        /\ table_data[to_currencies[cur_idx - 1]]
               = ExpectedSeries(hist_resps, to_currencies[cur_idx - 1])

\* a finished table series that has the last date although the first failed
C4_Witness ==
    /\ pc = "table_cur"
    /\ cur_idx = 2
    /\ IsFailure(hist_resps[1])
    /\ Len(table_data[to_currencies[1]]) = LoopCount - 1
    /\ table_data[to_currencies[1]][1].date = today - WindowDays + 1
    /\ table_data[to_currencies[1]][LoopCount - 1].date = today

---------------------------------------------------------------------------
(* C5 *)

\* C5: in the trend series and in every table series, finished or being
\* built, the observation dates are strictly increasing.
C5_DatesIncrease ==
    /\ StrictlyIncreasing(SeriesOf(historical_rates, dates_list))
    /\ StrictlyIncreasing(chart)
    /\ StrictlyIncreasing(SeriesOf(cur_rates, cur_dates))
    /\ \A c \in DOMAIN table_data : StrictlyIncreasing(table_data[c])

\* a chart and a table series with an observation on every window date
C5_Witness ==
    /\ pc = "done"
    /\ Len(chart) = LoopCount
    /\ chart[1].date = today - WindowDays
    /\ chart[LoopCount].date = today
    /\ \E c \in DOMAIN table_data : Len(table_data[c]) = LoopCount

---------------------------------------------------------------------------
(* C6 *)

\* C6: within one cycle no historical URL (date, base) is requested twice,
\* however many targets are selected.
C6_OneRequestPerDate ==
    \A a, b \in DOMAIN urls :
        (a # b /\ IsHistUrl(urls[a])) => urls[a] # urls[b]

---------------------------------------------------------------------------
(* C7 *)

\* C7: the cycle goes on after the latest fetch only if the response carries
\* result = "success" and a non-empty rates mapping; after any other
\* response it stops and no rate of the response is used.
C7_SuccessNeedsRates ==
    LatestHandled =>
        IF ~IsFailure(response) /\ response.rates # <<>>
        THEN pc # "stopped"
        ELSE pc = "stopped" /\ rates = <<>> /\ cards = <<>>

---------------------------------------------------------------------------
(* C8 *)

\* the history failures the run has reported
FailureReports ==
    LET counted(n) == n[1] = "history-failure"
    IN  SelectSeq(notices, counted)

\* the dates of the finished trend loop without an observation
TrendFailures ==
    LET failed(r) == ~HasObservation(r, to_currencies[1])
    IN  SelectSeq(hist_resps, failed)

\* C8: when the trend window is finished, the run has counted one failure
\* for every date whose fetch failed or lacked the target.
C8_FailuresCounted ==
    (pc = "table" /\ start_date # <<>>) =>
        Len(FailureReports) = Len(TrendFailures)

---------------------------------------------------------------------------
(* C9 *)

\* C9: with more than one target the table loop always runs with the window
\* start assigned and ends with a series for every selected target; the run
\* never fails on the unassigned start date.
C9_TableHasStart ==
    /\ pc # "crashed"
    /\ pc = "table_loop" => start_date = <<WindowStart(today)>>
    /\ (pc = "done" /\ Len(to_currencies) > 1) =>
           DOMAIN table_data = Range(to_currencies)

---------------------------------------------------------------------------
(* C10 *)

\* C10: the target list never holds a currency code twice.
C10_TargetsDistinct == NoDuplicates(to_currencies)

====
